---- MODULE Spec2Model ----
(***************************************************************************)
(* A population of Boid agents (src/src/boid.py) on a toroidal continuous  *)
(* space, activated one at a time by a scheduler.  Each activation runs    *)
(* Boid.step: neighbour query, steering, normalisation, infection_recover, *)
(* relocation.                                                             *)
(*                                                                         *)
(* Numbers.  Floating-point coordinates are quantised to the integer       *)
(* lattice: every division rounds to the nearest integer (half away from   *)
(* zero).  A float vector is either finite (two integers) or NaN in both   *)
(* components, which is what numpy's 0/0 produces.  Probabilities and      *)
(* random samples are counted in tenths (0.5 is 5, 1.0 is 10).             *)
(***************************************************************************)
EXTENDS Integers, Sequences, FiniteSets

\* ------------------------------------------------------------------ bounds
NumAgents == 3          \* size of the population
SpaceSize == 4          \* width and height of the torus
MaxSteps == 13          \* ticks the driver runs an epidemic scenario for
MotionSteps == 2        \* ticks the driver runs a steering scenario for

\* ------------------------------------------------------- program constants
Threshold == 10         \* infection_time > 10
DefaultMotality == 1    \* self.motality = 0.1
DefaultInfectionRate == 5  \* self.infection_rate = 0.5

Agents == 1..NumAgents
Status == {"susceptible", "infected", "recovered", "removed"}
Unset == "unset"        \* the attribute `state` before its first assignment
\* random.random() lies in [0,1): a sample below every positive probability
\* used here and one above every probability below 1, in tenths
Samples == {0, 9}
\* <<infection_rate, motality>>: the values __init__ sets, and the extremes
Rates == {<<DefaultInfectionRate, DefaultMotality>>, <<10, 0>>, <<10, 10>>}

VARIABLES pos, velocity, status, state, infection_time,
          infection_rate, motality,
          speed, vision, separation,
          cohere_factor, separate_factor, match_factor,
          pending, steps, horizon, tickStart, last

kinematics == <<pos, velocity>>
health == <<status, state, infection_time>>
config == <<infection_rate, motality, speed, vision, separation,
            cohere_factor, separate_factor, match_factor, horizon>>
vars == <<pos, velocity, status, state, infection_time,
          infection_rate, motality, speed, vision, separation,
          cohere_factor, separate_factor, match_factor,
          pending, steps, horizon, tickStart, last>>

\* ------------------------------------------------------------ float vectors
Abs(x) == IF x < 0 THEN -x ELSE x
Sign(x) == IF x < 0 THEN -1 ELSE IF x > 0 THEN 1 ELSE 0
Min(x, y) == IF x < y THEN x ELSE y
\* x / n for n > 0, rounded to the nearest integer
RoundDiv(x, n) == Sign(x) * ((2 * Abs(x) + n) \div (2 * n))

V(x, y) == [nan |-> FALSE, x |-> x, y |-> y]
NaNVec == [nan |-> TRUE, x |-> 0, y |-> 0]
Zero == V(0, 0)                                   \* np.zeros(2)
VAdd(u, v) == IF u.nan \/ v.nan THEN NaNVec ELSE V(u.x + v.x, u.y + v.y)
VSub(u, v) == IF u.nan \/ v.nan THEN NaNVec ELSE V(u.x - v.x, u.y - v.y)
VMul(u, k) == IF u.nan THEN NaNVec ELSE V(u.x * k, u.y * k)
VDiv(u, n) == IF u.nan THEN NaNVec ELSE V(RoundDiv(u.x, n), RoundDiv(u.y, n))
Norm2(u) == u.x * u.x + u.y * u.y                 \* squared length
Finite(u) == ~u.nan
\* v / np.linalg.norm(v): each component x / sqrt(x^2 + y^2) lies in [-1,1]
\* and rounds to sign(x) when it is at least 1/2 in size; the zero vector
\* divides 0.0 by 0.0, which numpy answers with nan (a warning, no error)
Normalize(u) ==
    IF u.nan \/ Norm2(u) = 0 THEN NaNVec
    ELSE V(IF 4 * u.x * u.x >= Norm2(u) THEN Sign(u.x) ELSE 0,
           IF 4 * u.y * u.y >= Norm2(u) THEN Sign(u.y) ELSE 0)

\* ------------------------------------------------- the space (collaborator)
HeadingCoord(a, b) ==
    LET d == b - a
        inverse == d - Sign(d) * SpaceSize
    IN IF Abs(d) < Abs(inverse) THEN d ELSE inverse
get_heading(p, q) ==
    IF p.nan \/ q.nan THEN NaNVec
    ELSE V(HeadingCoord(p.x, q.x), HeadingCoord(p.y, q.y))
DistCoord(a, b) == Min(Abs(a - b), SpaceSize - Abs(a - b))
\* get_distance squared; comparisons against a nan distance are all false
get_distance_sq(p, q) ==
    DistCoord(p.x, q.x) * DistCoord(p.x, q.x) + DistCoord(p.y, q.y) * DistCoord(p.y, q.y)
torus_adj(p) == IF p.nan THEN NaNVec ELSE V(p.x % SpaceSize, p.y % SpaceSize)

RECURSIVE SetToSeq(_)
SetToSeq(S) ==
    IF S = {} THEN <<>>
    ELSE LET m == CHOOSE x \in S : \A y \in S : x <= y
         IN <<m>> \o SetToSeq(S \ {m})

\* get_neighbors(pos, radius, False): the other agents within radius, in
\* the index's order
get_neighbors(w, a, radius) ==
    SetToSeq({n \in Agents \ {a} :
                /\ Finite(w.pos[a]) /\ Finite(w.pos[n])
                /\ get_distance_sq(w.pos[a], w.pos[n]) <= radius * radius})

\* ------------------------------------------------------------- steering
RECURSIVE SumHeadings(_, _, _)
SumHeadings(w, a, nbrs) ==
    IF nbrs = <<>> THEN Zero
    ELSE VAdd(get_heading(w.pos[a], w.pos[Head(nbrs)]), SumHeadings(w, a, Tail(nbrs)))

\* cohere without its `if neighbors:`: zeros(2) / 0 is nan
cohere_unguarded(w, a, nbrs) ==
    IF nbrs # <<>> THEN VDiv(SumHeadings(w, a, nbrs), Len(nbrs)) ELSE NaNVec

cohere(w, a, nbrs) ==
    IF nbrs # <<>> THEN VDiv(SumHeadings(w, a, nbrs), Len(nbrs)) ELSE Zero

\* <= for <
IsClose_inclusive(w, a, n) ==
    /\ w.separation >= 0
    /\ get_distance_sq(w.pos[a], w.pos[n]) <= w.separation * w.separation

\* get_distance(me, other) < self.separation: a distance is never below a
\* negative separation
IsClose(w, a, n) ==
    /\ w.separation > 0
    /\ get_distance_sq(w.pos[a], w.pos[n]) < w.separation * w.separation

RECURSIVE separate(_, _, _)
separate(w, a, nbrs) ==
    IF nbrs = <<>> THEN Zero
    ELSE LET rest == separate(w, a, Tail(nbrs))
         IN IF IsClose(w, a, Head(nbrs))
            THEN VSub(rest, get_heading(w.pos[a], w.pos[Head(nbrs)]))
            ELSE rest

RECURSIVE SumVelocities(_, _)
SumVelocities(w, nbrs) ==
    IF nbrs = <<>> THEN Zero
    ELSE VAdd(w.velocity[Head(nbrs)], SumVelocities(w, Tail(nbrs)))

\* alignment that follows healthy neighbours only
match_heading_healthy(w, a, nbrs) ==
    LET ok == SelectSeq(nbrs, LAMBDA n : w.status[n] # "infected")
    IN IF ok # <<>> THEN VDiv(SumVelocities(w, ok), Len(ok)) ELSE Zero

match_heading(w, a, nbrs) ==
    IF nbrs # <<>> THEN VDiv(SumVelocities(w, nbrs), Len(nbrs)) ELSE Zero

\* self.velocity += (cohere*cf + separate*sf + match*mf) / 2
RawVelocity(w, a, nbrs) ==
    VAdd(w.velocity[a],
         VDiv(VAdd(VAdd(VMul(cohere(w, a, nbrs), w.cohere_factor),
                        VMul(separate(w, a, nbrs), w.separate_factor)),
                   VMul(match_heading(w, a, nbrs), w.match_factor)), 2))

\* self.velocity /= np.linalg.norm(self.velocity)
NewVelocity(w, a, nbrs) == Normalize(RawVelocity(w, a, nbrs))

\* new_pos = self.pos + self.velocity * self.speed
NewPos(w, a, nbrs) == VAdd(w.pos[a], VMul(NewVelocity(w, a, nbrs), w.speed))

\* ------------------------------------------------------ infection_recover
\* what self knows of its own health: the attribute read (status), the
\* attribute written (state) and the duration counter
SelfHealth(w, a) ==
    [status |-> w.status[a], state |-> w.state[a],
     infection_time |-> w.infection_time[a]]

\* the assignment landing in the attribute that is read
Assign_status(h, v) == [h EXCEPT !.status = v]

\* self.state = v
Assign(h, v) == [h EXCEPT !.state = v]

\* neighbor.status, as the exposure check reads it
NeighborStatus(w, n) == w.status[n]

InfectedNeighbors(w, nbrs) ==
    SelectSeq(nbrs, LAMBDA n : NeighborStatus(w, n) = "infected")

\* the exposure loop leaving at the first infected neighbour
ExposureDraws_first(w, a, nbrs) ==
    IF nbrs # <<>> /\ w.status[a] = "susceptible"
    THEN Min(1, Len(InfectedNeighbors(w, nbrs))) ELSE 0

\* samples the exposure loop draws: one per infected neighbour, the loop
\* has no break
ExposureDraws(w, a, nbrs) ==
    IF nbrs # <<>> /\ w.status[a] = "susceptible"
    THEN Len(InfectedNeighbors(w, nbrs)) ELSE 0

\* exposure that infects next to any neighbour, whatever its status
Exposure_spontaneous(w, a, nbrs, stream) ==
    IF nbrs # <<>> /\ w.status[a] = "susceptible"
    THEN Assign(SelfHealth(w, a), "infected") ELSE SelfHealth(w, a)

\* exposure that forgets the susceptible check and overwrites status
Exposure_reinfect(w, a, nbrs, stream) ==
    IF InfectedNeighbors(w, nbrs) # <<>>
    THEN [SelfHealth(w, a) EXCEPT !.status = "infected"] ELSE SelfHealth(w, a)

\* if neighbors: if status == "susceptible": for neighbor ...: if
\* neighbor.status == "infected": if random() < infection_rate: state = ...
Exposure(w, a, nbrs, stream) ==
    LET h == SelfHealth(w, a)
    IN IF \E i \in 1..ExposureDraws(w, a, nbrs) : stream[i] < w.infection_rate[a]
       THEN Assign(h, "infected") ELSE h

\* the threshold mistyped
Overdue_early(h) == h.infection_time > 1

\* infection_time > 10
Overdue(h) == h.infection_time > Threshold

\* samples the resolution branch draws
ResolutionDraws(h) == IF h.status = "infected" /\ Overdue(h) THEN 1 ELSE 0

\* the infected branch entered by every agent that is not susceptible
Resolution_unguarded(w, a, h, sample) ==
    IF h.status # "susceptible"
    THEN LET r == IF Overdue(h)
                  THEN Assign(h, IF sample < w.motality[a] THEN "removed" ELSE "recovered")
                  ELSE h
         IN [r EXCEPT !.infection_time = @ + 1]
    ELSE h

\* the infected branch with the increment ahead of the threshold test
Resolution_increment_first(w, a, h, sample) ==
    IF h.status = "infected"
    THEN LET r == [h EXCEPT !.infection_time = @ + 1]
         IN IF Overdue(r)
            THEN Assign(r, IF sample < w.motality[a] THEN "removed" ELSE "recovered")
            ELSE r
    ELSE h

\* if status == "infected": if infection_time > 10: if random() < motality:
\* state = "removed" else: state = "recovered"; infection_time += 1
Resolution(w, a, h, sample) ==
    IF h.status = "infected"
    THEN LET r == IF Overdue(h)
                  THEN Assign(h, IF sample < w.motality[a] THEN "removed" ELSE "recovered")
                  ELSE h
         IN [r EXCEPT !.infection_time = @ + 1]
    ELSE h

\* the whole of infection_recover: ex are the samples the exposure loop
\* draws from the shared source and res the ones the resolution branch
\* draws after them
infection_recover(w, a, nbrs, ex, res) ==
    Resolution(w, a, Exposure(w, a, nbrs, ex), IF res = <<>> THEN 0 ELSE res[1])

\* ------------------------------------------------------------ the program
World ==
    [pos |-> pos, velocity |-> velocity, status |-> status, state |-> state,
     infection_time |-> infection_time, infection_rate |-> infection_rate,
     motality |-> motality, speed |-> speed, vision |-> vision,
     separation |-> separation, cohere_factor |-> cohere_factor,
     separate_factor |-> separate_factor, match_factor |-> match_factor]

NoStep ==
    [agent |-> 0, nbrs |-> <<>>, passed |-> <<>>, seen |-> <<>>, consumed |-> <<>>,
     before |-> [status |-> Unset, state |-> Unset, infection_time |-> 0],
     raw |-> Zero, vel0 |-> Zero]

Row == [a \in Agents |-> V((a - 1) % SpaceSize, 0)]
Diagonal == [a \in Agents |-> V((a - 1) % SpaceSize, (a - 1) % SpaceSize)]
Stack == [a \in Agents |-> V((a - 1) \div 2, 0)]
Parallel == [a \in Agents |-> V(1, 0)]
Opposed == [a \in Agents |-> IF a % 2 = 1 THEN V(1, 0) ELSE V(-1, 0)]
Crossed == [a \in Agents |-> IF a % 2 = 1 THEN V(0, 1) ELSE V(1, 0)]
Weights == {<<2, 0, 0>>, <<0, 2, 0>>, <<0, 0, 2>>, <<1, 1, 1>>}
Flocks == {<<Row, Opposed>>, <<Row, Parallel>>, <<Diagonal, Crossed>>, <<Stack, Opposed>>}
\* initial_status of every agent: nobody infected, or agents 1 and 2 in any
\* state among agents that are infected
Seeded ==
    {[a \in Agents |-> "susceptible"]} \cup
    {[a \in Agents |-> IF a = 1 THEN x ELSE IF a = 2 THEN y ELSE "infected"] :
        x \in Status, y \in {"susceptible", "infected"}}
Mixed ==
    [a \in Agents |-> IF a = 1 THEN "infected" ELSE IF a = 2 THEN "susceptible"
                       ELSE IF a % 2 = 1 THEN "recovered" ELSE "removed"]

\* Boid.__init__ for every agent of the population, with the arguments the
\* population's owner passes
InitCommon ==
    /\ state = [a \in Agents |-> Unset]
    /\ infection_time = [a \in Agents |-> 0]
    /\ pending = {}
    /\ steps = 0
    /\ tickStart = status
    /\ last = NoStep

\* epidemic scenarios: agents fly straight (all steering weights 0) for long
\* enough that an infection can resolve
InitEpidemic ==
    /\ pos = Row
    /\ velocity = Opposed
    /\ status \in Seeded
    /\ \E r \in Rates :
         /\ infection_rate = [a \in Agents |-> r[1]]
         /\ motality = [a \in Agents |-> r[2]]
    /\ speed = 1
    /\ vision \in {0, 1}
    /\ separation = 1
    /\ cohere_factor = 0 /\ separate_factor = 0 /\ match_factor = 0
    /\ horizon = MaxSteps
    /\ InitCommon

\* steering scenarios: a few ticks with the steering weights at work
InitSteering ==
    /\ \E f \in Flocks : pos = f[1] /\ velocity = f[2]
    /\ status = Mixed
    /\ infection_rate = [a \in Agents |-> DefaultInfectionRate]
    /\ motality = [a \in Agents |-> DefaultMotality]
    /\ speed = 1
    /\ vision \in {1, 2}
    /\ separation \in {0, 1, 2}
    /\ \E f \in Weights :
         cohere_factor = f[1] /\ separate_factor = f[2] /\ match_factor = f[3]
    /\ horizon = MotionSteps
    /\ InitCommon

Init == InitEpidemic \/ InitSteering

\* <<speed, separation, cohere, separate, match>> with one argument negative
Invalid ==
    {<<-1, 1, 1, 1, 1>>, <<1, -1, 0, 2, 0>>, <<1, 1, -1, 0, 0>>,
     <<1, 1, 0, -1, 0>>, <<1, 1, 0, 0, -1>>}

\* Boid.__init__ called with an argument outside its domain: the
\* constructor stores what it is given
InitInvalid ==
    /\ \E f \in Flocks : pos = f[1] /\ velocity = f[2]
    /\ status = Mixed
    /\ infection_rate = [a \in Agents |-> DefaultInfectionRate]
    /\ motality = [a \in Agents |-> DefaultMotality]
    /\ vision = 1
    /\ \E c \in Invalid :
         /\ speed = c[1] /\ separation = c[2]
         /\ cohere_factor = c[3] /\ separate_factor = c[4] /\ match_factor = c[5]
    /\ horizon = MotionSteps
    /\ InitCommon

\* the scheduler starts the next tick: every agent is to be activated once
NextTick ==
    /\ pending = {}
    /\ steps < horizon
    /\ pending' = Agents
    /\ steps' = steps + 1
    /\ tickStart' = status
    /\ last' = NoStep
    /\ UNCHANGED <<kinematics, health, config>>

\* model.space.move_agent(self, new_pos)
move_agent(p, a, new_pos) == [p EXCEPT ![a] = torus_adj(new_pos)]

\* the infection transition run after the relocation, on a fresh query
InfectionNeighbors_requery(w, a, nbrs) ==
    get_neighbors([w EXCEPT !.pos = move_agent(w.pos, a, NewPos(w, a, nbrs))], a, w.vision)

\* self.infection_recover(neighbors): the list queried at the top of step
InfectionNeighbors(w, a, nbrs) == nbrs

\* Boid.step of agent a, the samples coming from the shared source
Step(a) ==
    /\ a \in pending
    /\ LET w == World
           nbrs == get_neighbors(w, a, vision)
           raw == RawVelocity(w, a, nbrs)
           passed == InfectionNeighbors(w, a, nbrs)
       IN /\ velocity' = [velocity EXCEPT ![a] = NewVelocity(w, a, nbrs)]
          /\ pos' = move_agent(pos, a, NewPos(w, a, nbrs))
          /\ \E ex \in [1..ExposureDraws(w, a, passed) -> Samples] :
             \E res \in [1..ResolutionDraws(Exposure(w, a, passed, ex)) -> Samples] :
               LET h == infection_recover(w, a, passed, ex, res)
               IN /\ status' = [status EXCEPT ![a] = h.status]
                  /\ state' = [state EXCEPT ![a] = h.state]
                  /\ infection_time' = [infection_time EXCEPT ![a] = h.infection_time]
                  /\ last' = [agent |-> a, nbrs |-> nbrs, passed |-> passed,
                              seen |-> IF status[a] = "susceptible"
                                       THEN [i \in 1..Len(passed) |-> NeighborStatus(w, passed[i])]
                                       ELSE <<>>,
                              consumed |-> ex \o res,
                              before |-> SelfHealth(w, a),
                              raw |-> raw, vel0 |-> velocity[a]]
    /\ pending' = pending \ {a}
    /\ UNCHANGED <<config, steps, tickStart>>

Next == NextTick \/ \E a \in Agents : Step(a)

Spec == Init /\ [][Next]_vars

\* runs of populations built with an invalid argument
SpecConfig == InitInvalid /\ [][Next]_vars

\* ============================================================ properties
Terminal == {"recovered", "removed"}
Ticked(a) == last.agent = a
SawInfected == \E i \in 1..Len(last.seen) : last.seen[i] = "infected"

\* C1: a Susceptible agent with an Infected neighbour and infection
\* probability 1.0 is, after its tick, Infected in the attribute that the
\* transitions and the exposure checks read, with duration counter 0.
C1_ExposureInfects ==
    \A a \in Agents :
        (/\ Ticked(a) /\ last.before.status = "susceptible"
         /\ SawInfected /\ infection_rate[a] = 10)
        => (status[a] = "infected" /\ infection_time[a] = 0)

\* C2: an agent Infected with duration counter 11 is, after its tick, Removed
\* when the sample is below the mortality probability and Recovered otherwise.
C2_ResolutionResolves ==
    \A a \in Agents :
        (/\ Ticked(a) /\ last.before.status = "infected"
         /\ last.before.infection_time = 11)
        => /\ Len(last.consumed) = 1
           /\ status[a] = IF last.consumed[1] < motality[a] THEN "removed" ELSE "recovered"

\* the moves of the health state machine
AllowedMoves ==
    {<<"susceptible", "infected">>, <<"infected", "recovered">>, <<"infected", "removed">>}
C4_DurationCounts ==
    \A a \in Agents :
        (Ticked(a) /\ last.before.status = "infected")
        => /\ infection_time[a] = last.before.infection_time + 1
           /\ (\/ last.consumed # <<>>
               \/ state[a] # last.before.state
               \/ status[a] # last.before.status)
              => last.before.infection_time > Threshold
C4_Witness ==
    \E a \in Agents :
        /\ Ticked(a) /\ last.before.status = "infected"
        /\ last.before.infection_time = Threshold + 1
        /\ infection_time[a] = Threshold + 2
        /\ last.before.state = Unset /\ state[a] \in Terminal

\* C5: a tick of an agent that is Susceptible when the tick starts leaves
\* its duration counter alone, draws no mortality sample (the samples drawn
\* are one per Infected neighbour seen) and writes neither Recovered nor
\* Removed, whether or not the tick infects the agent.
C5_NoDoubleProcessing ==
    \A a \in Agents :
        (Ticked(a) /\ last.before.status = "susceptible")
        => /\ infection_time[a] = last.before.infection_time
           /\ Len(last.consumed) = Cardinality({i \in 1..Len(last.seen) : last.seen[i] = "infected"})
           /\ status[a] \notin Terminal
           /\ state[a] \notin Terminal
C5_Witness ==
    \E a \in Agents :
        /\ Ticked(a) /\ last.before.status = "susceptible"
        /\ last.before.state = Unset /\ state[a] = "infected"
        /\ infection_time[a] = 0

C7_VelocityGuarded ==
    /\ \A a \in Agents : Finite(velocity[a]) /\ velocity[a] # Zero
    /\ \A a \in Agents : (Ticked(a) /\ last.raw = Zero) => velocity[a] = last.vel0

\* other health assignments for the same population
AltHealth ==
    {[a \in Agents |-> x] : x \in Status} \cup
    {[a \in Agents |-> status[(a % NumAgents) + 1]]}
AltWorlds ==
    {[World EXCEPT !.status = s, !.state = s,
                   !.infection_time = [a \in Agents |-> IF s[a] = "infected" THEN Threshold + 1 ELSE 0]] :
        s \in AltHealth}
\* C8: the velocity and position an agent has after its tick are the same
\* whatever the health states, written states and duration counters of the
\* population are; and a tick that moves an agent for which
\* infection_recover has nothing to do leaves its health alone.
C8_MotionIgnoresHealth ==
    [][\A a \in Agents :
         (a \in pending /\ a \notin pending')
         => /\ \A alt \in AltWorlds :
                 LET nb == get_neighbors(alt, a, vision)
                 IN /\ velocity'[a] = NewVelocity(alt, a, nb)
                    /\ pos'[a] = torus_adj(NewPos(alt, a, nb))
            /\ status[a] \in Terminal
               => /\ status'[a] = status[a] /\ state'[a] = state[a]
                  /\ infection_time'[a] = infection_time[a]]_vars
C8_Witness ==
    \E a \in Agents :
        /\ Ticked(a) /\ Finite(velocity[a]) /\ velocity[a] # last.vel0
        /\ \E i, j \in 1..Len(last.nbrs) :
              status[last.nbrs[i]] = "infected" /\ status[last.nbrs[j]] \in Terminal

\* C9: with no neighbours the three steering vectors are zero (so the tick
\* normalises the old velocity alone), and a Susceptible agent keeps its
\* state and draws no sample.
C9_EmptyNeighbourhood ==
    /\ \A a \in Agents :
          /\ cohere(World, a, <<>>) = Zero
          /\ separate(World, a, <<>>) = Zero
          /\ match_heading(World, a, <<>>) = Zero
    /\ \A a \in Agents :
          (Ticked(a) /\ last.nbrs = <<>>)
          => /\ last.raw = last.vel0
             /\ last.before.status = "susceptible"
                => /\ last.consumed = <<>>
                   /\ status[a] = "susceptible"
                   /\ state[a] = last.before.state
                   /\ infection_time[a] = last.before.infection_time
C9_Witness ==
    \E a \in Agents :
        /\ Ticked(a) /\ last.nbrs = <<>> /\ last.before.status = "susceptible"
        /\ \E b \in Agents : status[b] = "infected"

\* the neighbours at a distance strictly below the threshold
StrictlyCloser(a, nbrs) ==
    SelectSeq(nbrs, LAMBDA n : get_distance_sq(pos[a], pos[n]) < separation * separation)
\* C10: the separation vector is the negated sum of the headings to exactly
\* the neighbours strictly closer than the threshold; a neighbour at the
\* threshold or beyond adds nothing, and threshold 0 gives the zero vector.
C10_SeparationStrict ==
    \A a \in Agents :
        LET nbrs == get_neighbors(World, a, vision)
        IN /\ separate(World, a, nbrs) = VSub(Zero, SumHeadings(World, a, StrictlyCloser(a, nbrs)))
           /\ separation = 0 => separate(World, a, nbrs) = Zero
C10_Witness ==
    \E a \in Agents :
        LET nbrs == get_neighbors(World, a, vision)
        IN /\ steps > 0 /\ separation > 0
           /\ \E i \in 1..Len(nbrs) :
                 get_distance_sq(pos[a], pos[nbrs[i]]) = separation * separation
           /\ separate(World, a, nbrs) # Zero

\* the domains of the configuration (probabilities in tenths)
ValidConfig ==
    /\ \A a \in Agents : infection_rate[a] \in 0..10 /\ motality[a] \in 0..10
    /\ speed >= 0 /\ vision >= 0 /\ separation >= 0
    /\ cohere_factor >= 0 /\ separate_factor >= 0 /\ match_factor >= 0

\* C11: a configuration outside its domain is rejected at construction, so
\* no agent built with one is ever ticked.
C11_ConfigRejected ==
    ~ValidConfig => last = NoStep

\* a tick of a that ran the resolution: the mortality sample was drawn and
\* Recovered or Removed written
Resolved(a) ==
    /\ Ticked(a) /\ last.before.status = "infected"
    /\ Len(last.consumed) = 1
    /\ state[a] = IF last.consumed[1] < motality[a] THEN "removed" ELSE "recovered"

\* C13 as stated: the threshold test reads the incremented counter, so the
\* tick that takes the counter of an Infected agent from 10 to 11 resolves it.
C13_IncrementFirst ==
    \A a \in Agents :
        (/\ Ticked(a) /\ last.before.status = "infected"
         /\ last.before.infection_time = Threshold)
        => Resolved(a)

\* C13 amended: the threshold test reads the counter as it was before the
\* tick and the increment follows it: a tick of an Infected agent runs the
\* resolution exactly when the counter before the tick exceeds 10, the first
\* time in the tick that takes the counter from 11 to 12; the tick from 10
\* to 11 draws nothing and writes nothing.
C13_TestBeforeIncrement ==
    \A a \in Agents :
        (Ticked(a) /\ last.before.status = "infected")
        => /\ infection_time[a] = last.before.infection_time + 1
           /\ Resolved(a) <=> last.before.infection_time > Threshold
           /\ last.before.infection_time <= Threshold
              => (last.consumed = <<>> /\ state[a] = last.before.state)
C13_Witness ==
    \E a, b \in Agents :
        /\ Resolved(a) /\ last.before.state = Unset
        /\ last.before.infection_time = Threshold + 1
        /\ infection_time[a] = Threshold + 2
        /\ status[b] = "infected" /\ infection_time[b] = Threshold + 1
        /\ state[b] = Unset

\* the Infected neighbours the exposure check of the last tick saw
SeenInfected == {i \in 1..Len(last.seen) : last.seen[i] = "infected"}
\* the samples of the last tick below the infection probability
Qualifying(a) == {i \in 1..Len(last.consumed) : last.consumed[i] < infection_rate[a]}

\* C14 as stated: the exposure loop stops at the first sample below the
\* infection probability, so the samples consumed number the position of the
\* first qualifying one, or the Infected neighbours when none qualifies.
C14_StopsAtFirst ==
    \A a \in Agents :
        (Ticked(a) /\ last.before.status = "susceptible")
        => Len(last.consumed) =
              IF Qualifying(a) = {} THEN Cardinality(SeenInfected)
              ELSE CHOOSE i \in Qualifying(a) : \A j \in Qualifying(a) : i <= j

\* C14 amended: the tick of a Susceptible agent draws one sample for every
\* Infected neighbour, in the neighbours' order, also after a sample has
\* qualified; it writes Infected when at least one sample is below the
\* infection probability and changes nothing else.
C14_OneDrawPerInfected ==
    \A a \in Agents :
        (Ticked(a) /\ last.before.status = "susceptible")
        => /\ Len(last.consumed) = Cardinality(SeenInfected)
           /\ state[a] = IF Qualifying(a) # {} THEN "infected" ELSE last.before.state
           /\ status[a] = "susceptible"
           /\ infection_time[a] = last.before.infection_time
C14_Witness ==
    \E a \in Agents :
        /\ Ticked(a) /\ last.before.status = "susceptible"
        /\ Cardinality(SeenInfected) = 2
        /\ 1 \in Qualifying(a) /\ Len(last.consumed) = 2
        /\ last.before.state = Unset /\ state[a] = "infected"

C16_TickOrder ==
    [][\A a \in Agents :
         (a \in pending /\ a \notin pending')
         => LET q == get_neighbors(World, a, vision)
            IN /\ last'.nbrs = q
               /\ last'.passed = q
               /\ \A i \in 1..Len(q) : q[i] # a
               /\ status[a] = "susceptible"
                  => last'.seen = [i \in 1..Len(q) |-> status[q[i]]]
               /\ Len(last'.consumed) =
                     ExposureDraws(World, a, q) + ResolutionDraws(SelfHealth(World, a))
               /\ pos'[a] = torus_adj(NewPos(World, a, q))]_vars
C16_Witness ==
    \E a \in Agents :
        /\ Ticked(a) /\ last.before.status = "susceptible"
        /\ last.passed # <<>>
        /\ \E i \in 1..Len(last.seen) : last.seen[i] = "infected"
        /\ Len(last.consumed) > Len(InfectedNeighbors(World, get_neighbors(World, a, vision)))

\* C17: an Infected agent that keeps being ticked is Recovered or Removed
\* after at most 12 of its ticks: no agent is still Infected with 12 ticks
\* counted.
C17_InfectionResolves ==
    \A a \in Agents : status[a] = "infected" => infection_time[a] < Threshold + 2

\* C18: a tick turns an agent Infected (in the attribute read or in the one
\* written) only if its queried neighbours held an Infected agent; where
\* nobody is Infected, the tick of a Susceptible agent draws nothing and
\* writes nothing.
C18_NoInfectionWithoutExposure ==
    \A a \in Agents :
        Ticked(a)
        => /\ (\/ status[a] = "infected" /\ last.before.status # "infected"
               \/ state[a] = "infected" /\ last.before.state # "infected")
              => \E i \in 1..Len(last.passed) : tickStart[last.passed[i]] = "infected"
           /\ (last.before.status = "susceptible" /\ \A b \in Agents : status[b] # "infected")
              => (last.consumed = <<>> /\ state[a] = last.before.state)
C18_Witness ==
    \E a \in Agents :
        /\ Ticked(a) /\ last.passed # <<>> /\ steps = 2
        /\ \A b \in Agents : status[b] = "susceptible" /\ state[b] = Unset

====
